---- MODULE Spec2Model ----
(***************************************************************************)
(* Product Analytics Dashboard: ProductService -> ProductRepository ->      *)
(* FetchHttpClient, and the filter / sort / paginate query pipeline.        *)
(*                                                                         *)
(* Strings are sequences of one-character strings, numbers are integers     *)
(* (prices and rating rates are scaled decimals).  An optional value of     *)
(* TypeScript (T | undefined) is a set with at most one element: {} is      *)
(* undefined, {v} is the value v.                                           *)
(***************************************************************************)
EXTENDS Integers, Sequences, FiniteSets, TLC

\* ------------------------------------------------------------------ bounds
MaxProducts == 3        \* longest small dataset drawn from ProductPool
MaxCatalog == 21        \* size of the largest generated catalog
MaxPage == 2            \* largest page number a caller passes
MaxLimit == 2           \* largest page size a caller passes
MaxId == 5              \* largest product id a caller asks for

\* ------------------------------------------------------- program constants
DefaultPage == 1
DefaultLimit == 20

\* ----------------------------------------------------------------- strings
Lower(c) == CASE c = "A" -> "a" [] c = "B" -> "b" [] OTHER -> c

toLowerCase(s) == [i \in 1..Len(s) |-> Lower(s[i])]

includes(s, q) == \E i \in 0..(Len(s) - Len(q)) : SubSeq(s, i + 1, i + Len(q)) = q

IsSpace(c) == c = " "

RECURSIVE trimStart(_)
trimStart(s) == IF s # <<>> /\ IsSpace(Head(s)) THEN trimStart(Tail(s)) ELSE s

RECURSIVE trimEnd(_)
trimEnd(s) ==
  IF s # <<>> /\ IsSpace(s[Len(s)]) THEN trimEnd(SubSeq(s, 1, Len(s) - 1)) ELSE s

trim(s) == trimEnd(trimStart(s))

\* JavaScript truthiness of a string: only the empty string is falsy
Truthy(s) == s # <<>>

\* Collation weights of the locale-aware comparison: the primary weight orders
\* the letters regardless of case, the tertiary weight puts lower case first.
Primary(c) == CASE c = " " -> 0 [] c \in {"a", "A"} -> 1 [] c \in {"b", "B"} -> 2
Tertiary(c) == IF c \in {"A", "B"} THEN 1 ELSE 0

Weight(level, c) == IF level = "primary" THEN Primary(c) ELSE Tertiary(c)

RECURSIVE LexCompare(_, _, _)
LexCompare(level, s, t) ==
  IF s = <<>> /\ t = <<>> THEN 0
  ELSE IF s = <<>> THEN -1
  ELSE IF t = <<>> THEN 1
  ELSE IF Weight(level, Head(s)) < Weight(level, Head(t)) THEN -1
  ELSE IF Weight(level, Head(s)) > Weight(level, Head(t)) THEN 1
  ELSE LexCompare(level, Tail(s), Tail(t))

localeCompare(s, t) ==
  LET p == LexCompare("primary", s, t)
  IN IF p # 0 THEN p ELSE LexCompare("tertiary", s, t)

\* ---------------------------------------------------------------- products
Product(id, title, price, description, category, rate, count) ==
  [id |-> id, title |-> title, price |-> price, description |-> description,
   category |-> category, rating |-> [rate |-> rate, count |-> count]]

Electronics == <<"e">>
Clothing == <<"c">>

ProductPool ==
  << Product(1, <<"b">>, 2, <<"a">>, Electronics, 4, 1),
     Product(2, <<"A", "b">>, 1, <<>>, Clothing, 4, 2),
     Product(3, <<"a">>, 2, <<"B">>, Electronics, 3, 1),
     Product(4, <<"b">>, 3, <<"b", " ">>, Clothing, 3, 5) >>

\* sequences of at most n products of the pool, no product twice
RECURSIVE PoolSeqs(_)
PoolSeqs(n) ==
  IF n = 0 THEN {<<>>}
  ELSE LET shorter == PoolSeqs(n - 1)
       IN shorter \cup
          {Append(s, ProductPool[k]) :
             s \in {t \in shorter : Len(t) = n - 1},
             k \in 1..Len(ProductPool)}

HasDistinctIds(s) == \A i, j \in 1..Len(s) : s[i].id = s[j].id => i = j

\* a catalog of n products with ids 1..n whose fields cycle through the pool
Catalog(n) ==
  [i \in 1..n |->
     [ProductPool[((i - 1) % Len(ProductPool)) + 1] EXCEPT !.id = i]]

\* the datasets the query pipeline is run on
Datasets == {s \in PoolSeqs(MaxProducts) : HasDistinctIds(s)}

\* the catalogs the remote source may hold
Catalogs == Datasets \cup {Catalog(n) : n \in 0..MaxCatalog}

\* ------------------------------------------------------------ caller inputs
Categories == {<<>>, Electronics}
Searches == {<<"A">>}
MinPrices == {2}
MaxPrices == {1}

Opt(S) == {{}} \cup {{v} : v \in S}

FilterArgs ==
  Opt([category : Opt(Categories), search : Opt(Searches),
       minPrice : Opt(MinPrices), maxPrice : Opt(MaxPrices)])

SortArgs == Opt([field : {"title", "price", "rating"}, order : {"asc", "desc"}])

PaginationArgs == Opt([page : 0..MaxPage, limit : 1..MaxLimit])

\* the getProducts calls made against the remote source: without arguments,
\* as the products page makes it, and with each argument supplied
NoFilters == [category |-> {}, search |-> {}, minPrice |-> {}, maxPrice |-> {}]

ServiceFilterArgs == {{}, {[NoFilters EXCEPT !.category = {Electronics}]}}
ServiceSortArgs == {{}, {[field |-> "price", order |-> "desc"]}}
ServicePaginationArgs == {{}, {[page |-> 1, limit |-> MaxLimit]}}

\* search queries and categories passed to searchProducts / findByCategory
Queries == {<<>>, <<" ">>, <<" ", " ">>, <<"A">>, <<"b", " ">>, <<"e">>}
CategoryArgs == {<<>>, <<" ">>, Electronics, Clothing}
IdArgs == (-1)..MaxId

OptVal(o) == CHOOSE v \in o : TRUE

\* ------------------------------------------------------------------ Result
success(data) == [success |-> TRUE, data |-> data]

failure(error) == [success |-> FALSE, error |-> error]

ApiError(message, code, statusCode) ==
  [message |-> message, code |-> code, statusCode |-> statusCode]

\* ------------------------------------------------- the query pipeline steps
\* PassesFilters with both price bounds exclusive
PassesFilters_ExclusiveBounds(product, filters) ==
  IF filters.category # {} /\ Truthy(OptVal(filters.category))
       /\ product.category # OptVal(filters.category)
  THEN FALSE
  ELSE IF filters.search # {} /\ Truthy(OptVal(filters.search))
            /\ LET query == toLowerCase(OptVal(filters.search))
                   matchesSearch ==
                     \/ includes(toLowerCase(product.title), query)
                     \/ includes(toLowerCase(product.description), query)
               IN ~matchesSearch
  THEN FALSE
  ELSE IF filters.minPrice # {} /\ product.price <= OptVal(filters.minPrice)
  THEN FALSE
  ELSE IF filters.maxPrice # {} /\ product.price >= OptVal(filters.maxPrice)
  THEN FALSE
  ELSE TRUE

\* PassesFilters reading an inverted price range as the range between the
\* two bounds
PassesFilters_NormalizedBounds(product, filters) ==
  LET lo == IF filters.minPrice # {} /\ filters.maxPrice # {}
                 /\ OptVal(filters.minPrice) > OptVal(filters.maxPrice)
            THEN filters.maxPrice ELSE filters.minPrice
      hi == IF filters.minPrice # {} /\ filters.maxPrice # {}
                 /\ OptVal(filters.minPrice) > OptVal(filters.maxPrice)
            THEN filters.minPrice ELSE filters.maxPrice
  IN IF filters.category # {} /\ Truthy(OptVal(filters.category))
          /\ product.category # OptVal(filters.category)
     THEN FALSE
     ELSE IF filters.search # {} /\ Truthy(OptVal(filters.search))
               /\ ~(\/ includes(toLowerCase(product.title),
                                toLowerCase(OptVal(filters.search)))
                    \/ includes(toLowerCase(product.description),
                                toLowerCase(OptVal(filters.search))))
     THEN FALSE
     ELSE IF lo # {} /\ product.price < OptVal(lo)
     THEN FALSE
     ELSE IF hi # {} /\ product.price > OptVal(hi)
     THEN FALSE
     ELSE TRUE

\* the predicate of products.filter(...) in applyFilters
PassesFilters(product, filters) ==
  IF filters.category # {} /\ Truthy(OptVal(filters.category))
       /\ product.category # OptVal(filters.category)
  THEN FALSE
  ELSE IF filters.search # {} /\ Truthy(OptVal(filters.search))
            /\ LET query == toLowerCase(OptVal(filters.search))
                   matchesSearch ==
                     \/ includes(toLowerCase(product.title), query)
                     \/ includes(toLowerCase(product.description), query)
               IN ~matchesSearch
  THEN FALSE
  ELSE IF filters.minPrice # {} /\ product.price < OptVal(filters.minPrice)
  THEN FALSE
  ELSE IF filters.maxPrice # {} /\ product.price > OptVal(filters.maxPrice)
  THEN FALSE
  ELSE TRUE

applyFilters(products, filters) ==
  LET Keep(product) == PassesFilters(product, filters)
  IN SelectSeq(products, Keep)

\* SortComparator comparing ratings by rating.count instead of rating.rate
SortComparator_RatingCount(a, b, sort) ==
  LET comparison ==
        CASE sort.field = "title" -> localeCompare(a.title, b.title)
          [] sort.field = "price" -> a.price - b.price
          [] sort.field = "rating" -> a.rating.count - b.rating.count
  IN IF sort.order = "asc" THEN comparison ELSE -comparison

\* the comparator handed to sorted.sort(...) in applySort
SortComparator(a, b, sort) ==
  LET comparison ==
        CASE sort.field = "title" -> localeCompare(a.title, b.title)
          [] sort.field = "price" -> a.price - b.price
          [] sort.field = "rating" -> a.rating.rate - b.rating.rate
  IN IF sort.order = "asc" THEN comparison ELSE -comparison

\* Array.prototype.sort is a stable sort: an element goes before the first
\* element that compares greater than it, hence after every equal one.
InsertSorted(sorted, x, sort) ==
  LET greater == {i \in 1..Len(sorted) : SortComparator(sorted[i], x, sort) > 0}
      at == IF greater = {} THEN Len(sorted) + 1
            ELSE CHOOSE i \in greater : \A j \in greater : i <= j
  IN SubSeq(sorted, 1, at - 1) \o <<x>> \o SubSeq(sorted, at, Len(sorted))

RECURSIVE ArraySort(_, _)
ArraySort(arr, sort) ==
  IF arr = <<>> THEN <<>>
  ELSE InsertSorted(ArraySort(SubSeq(arr, 1, Len(arr) - 1), sort),
                    arr[Len(arr)], sort)

Reverse(arr) == [i \in 1..Len(arr) |-> arr[Len(arr) + 1 - i]]

\* applySort producing a descending order by reversing the ascending one
applySort_ReverseForDesc(products, sort) ==
  IF sort.order = "desc"
  THEN Reverse(ArraySort(products, [sort EXCEPT !.order = "asc"]))
  ELSE ArraySort(products, sort)

applySort(products, sort) == ArraySort(products, sort)

Max(a, b) == IF a > b THEN a ELSE b
Min(a, b) == IF a < b THEN a ELSE b

\* Array.prototype.slice(start, end): a negative index counts from the end
slice(arr, start, end) ==
  LET len == Len(arr)
      k == IF start < 0 THEN Max(len + start, 0) ELSE Min(start, len)
      final == IF end < 0 THEN Max(len + end, 0) ELSE Min(end, len)
  IN SubSeq(arr, k + 1, final)

\* MathCeilDiv rounding down
MathCeilDiv_Floor(total, limit) == total \div limit

\* MathCeilDiv never reporting fewer than one page
MathCeilDiv_AtLeastOne(total, limit) ==
  IF total = 0 THEN 1 ELSE (total + limit - 1) \div limit

\* Math.ceil(total / limit) for total >= 0 and limit >= 1
MathCeilDiv(total, limit) == (total + limit - 1) \div limit

\* applyPagination raising a page number below 1 to 1
applyPagination_ClampPage(products, pagination) ==
  LET page == IF pagination.page < 1 THEN 1 ELSE pagination.page
      limit == pagination.limit
      total == Len(products)
      totalPages == MathCeilDiv(total, limit)
      startIndex == (page - 1) * limit
      endIndex == startIndex + limit
      data == slice(products, startIndex, endIndex)
  IN [data |-> data, total |-> total, page |-> page, limit |-> limit,
      totalPages |-> totalPages]

\* applyPagination taking the page number as zero-based
applyPagination_ZeroBasedPage(products, pagination) ==
  LET page == pagination.page
      limit == pagination.limit
      total == Len(products)
      totalPages == MathCeilDiv(total, limit)
      startIndex == page * limit
      endIndex == startIndex + limit
      data == slice(products, startIndex, endIndex)
  IN [data |-> data, total |-> total, page |-> page, limit |-> limit,
      totalPages |-> totalPages]

applyPagination(products, pagination) ==
  LET page == pagination.page
      limit == pagination.limit
      total == Len(products)
      totalPages == MathCeilDiv(total, limit)
      startIndex == (page - 1) * limit
      endIndex == startIndex + limit
      data == slice(products, startIndex, endIndex)
  IN [data |-> data, total |-> total, page |-> page, limit |-> limit,
      totalPages |-> totalPages]

\* GetProductsResume paginating the unfiltered list first, then filtering and
\* sorting the page
GetProductsResume_PaginateFirst(productsResult, filters, sort, pagination) ==
  IF ~productsResult.success
  THEN [input |-> <<>>, products |-> <<>>, result |-> productsResult]
  ELSE LET copied == productsResult.data
           paginationConfig == IF pagination # {} THEN OptVal(pagination)
                               ELSE [page |-> DefaultPage, limit |-> DefaultLimit]
           paged == applyPagination(copied, paginationConfig)
           filtered == IF filters # {}
                       THEN applyFilters(paged.data, OptVal(filters))
                       ELSE paged.data
           sorted == IF sort # {} THEN applySort(filtered, OptVal(sort))
                     ELSE filtered
       IN [input |-> productsResult.data, products |-> sorted,
           result |-> success([paged EXCEPT !.data = sorted])]

\* GetProductsResume answering a failed findAll with an empty first page
GetProductsResume_EmptyOnFailure(productsResult, filters, sort, pagination) ==
  LET copied == IF productsResult.success THEN productsResult.data ELSE <<>>
      filtered == IF filters # {} THEN applyFilters(copied, OptVal(filters))
                  ELSE copied
      sorted == IF sort # {} THEN applySort(filtered, OptVal(sort))
                ELSE filtered
      paginationConfig == IF pagination # {} THEN OptVal(pagination)
                          ELSE [page |-> DefaultPage, limit |-> DefaultLimit]
  IN [input |-> copied, products |-> sorted,
      result |-> success(applyPagination(sorted, paginationConfig))]

\* getProducts after `await this.repository.findAll()`: the array findAll
\* resolved to as the call leaves it (`input`), the value of the local
\* `products` when it is paginated, and the returned Result
GetProductsResume(productsResult, filters, sort, pagination) ==
  IF ~productsResult.success
  THEN [input |-> <<>>, products |-> <<>>, result |-> productsResult]
  ELSE LET copied == productsResult.data
           filtered == IF filters # {} THEN applyFilters(copied, OptVal(filters))
                       ELSE copied
           sorted == IF sort # {} THEN applySort(filtered, OptVal(sort))
                     ELSE filtered
           paginationConfig == IF pagination # {} THEN OptVal(pagination)
                               ELSE [page |-> DefaultPage, limit |-> DefaultLimit]
       IN [input |-> productsResult.data, products |-> sorted,
           result |-> success(applyPagination(sorted, paginationConfig))]

\* searchProducts after `await this.repository.findAll()`
SearchProductsResume(productsResult, query) ==
  IF ~productsResult.success THEN productsResult
  ELSE LET normalizedQuery == trim(toLowerCase(query))
           Matches(product) ==
             \/ includes(toLowerCase(product.title), normalizedQuery)
             \/ includes(toLowerCase(product.description), normalizedQuery)
             \/ includes(toLowerCase(product.category), normalizedQuery)
       IN success(SelectSeq(productsResult.data, Matches))

\* ------------------------------------------------ the in-browser pipeline
\* page size of useProductFilters
HookLimit == 12

\* the filter steps of the useMemo bodies of useProductFilters
HookFilter(products, filters) ==
  LET InCategory(p) == p.category = OptVal(filters.category)
      byCategory == IF filters.category # {} /\ Truthy(OptVal(filters.category))
                    THEN SelectSeq(products, InCategory)
                    ELSE products
      query == toLowerCase(OptVal(filters.search))
      MatchesSearch(p) == \/ includes(toLowerCase(p.title), query)
                          \/ includes(toLowerCase(p.description), query)
      bySearch == IF filters.search # {} /\ Truthy(OptVal(filters.search))
                  THEN SelectSeq(byCategory, MatchesSearch)
                  ELSE byCategory
      AtLeastMin(p) == p.price >= OptVal(filters.minPrice)
      byMinPrice == IF filters.minPrice # {}
                    THEN SelectSeq(bySearch, AtLeastMin)
                    ELSE bySearch
      AtMostMax(p) == p.price <= OptVal(filters.maxPrice)
  IN IF filters.maxPrice # {}
     THEN SelectSeq(byMinPrice, AtMostMax)
     ELSE byMinPrice

\* useFilteredProducts sorting initialProducts itself when no filter step
\* made a new array
useFilteredProducts_SortInPlace(initialProducts, filters, sort, pagination) ==
  LET filtered == HookFilter(initialProducts, filters)
      noNewArray == /\ ~(filters.category # {} /\ Truthy(OptVal(filters.category)))
                    /\ ~(filters.search # {} /\ Truthy(OptVal(filters.search)))
                    /\ filters.minPrice = {}
                    /\ filters.maxPrice = {}
      sorted == ArraySort(filtered, sort)
      startIndex == (pagination.page - 1) * pagination.limit
  IN [initialProducts |-> IF noNewArray THEN sorted ELSE initialProducts,
      filteredProducts |-> slice(sorted, startIndex,
                                 startIndex + pagination.limit)]

\* the filteredProducts memo of useProductFilters: the prop initialProducts
\* as the computation leaves it, and the page it returns
useFilteredProducts(initialProducts, filters, sort, pagination) ==
  LET copied == initialProducts
      filtered == HookFilter(copied, filters)
      sorted == ArraySort(filtered, sort)
      startIndex == (pagination.page - 1) * pagination.limit
  IN [initialProducts |-> initialProducts,
      filteredProducts |-> slice(sorted, startIndex,
                                 startIndex + pagination.limit)]

\* useTotalPages counting the products before the filters
useTotalPages_Unfiltered(initialProducts, filters, pagination) ==
  MathCeilDiv(Len(initialProducts), pagination.limit)

\* the totalPages memo of useProductFilters
useTotalPages(initialProducts, filters, pagination) ==
  LET anyFilter == \/ filters.category # {} /\ Truthy(OptVal(filters.category))
                   \/ filters.search # {} /\ Truthy(OptVal(filters.search))
                   \/ filters.minPrice # {}
                   \/ filters.maxPrice # {}
      count == IF anyFilter THEN Len(HookFilter(initialProducts, filters))
               ELSE Len(initialProducts)
  IN MathCeilDiv(count, pagination.limit)

\* ------------------------------------------------------------ SalesService
\* product ids handed to the sales service: -MaxSalesId .. MaxSalesId
MaxSalesId == 30

months ==
  <<"Jan", "Feb", "Mar", "Apr", "May", "Jun", "Jul", "Aug", "Sep", "Oct",
    "Nov", "Dec">>

\* the JavaScript remainder a % n for n > 0: it has the sign of a
JsRem(a, n) == IF a >= 0 THEN a % n ELSE -((-a) % n)

\* Math.sin((index / 12) * Math.PI * 2) in millionths, index 0..11
SinMillionths ==
  <<0, 500000, 866025, 1000000, 866025, 500000,
    0, -500000, -866025, -1000000, -866025, -500000>>

\* Math.round(n / 1000000): the nearest integer, a half rounded upwards
MathRoundMillionths(n) == (n + 500000) \div 1000000

\* array.reduce((sum, x) => sum + x, 0) over a sequence of numbers
RECURSIVE ReduceSum(_)
ReduceSum(values) ==
  IF values = <<>> THEN 0
  ELSE ReduceSum(SubSeq(values, 1, Len(values) - 1)) + values[Len(values)]

\* the callback of months.map in generateMockSalesData; index is zero-based
MonthlySales(seed, index) ==
  LET baseUnits == 50 + JsRem(seed * 7 + index * 13, 150)
      seasonalFactor == 800000 + (SinMillionths[index + 1] * 4) \div 10
      units == MathRoundMillionths(baseUnits * seasonalFactor)
      pricePerUnit == 10 + JsRem(seed * 3 + index * 5, 90)
      revenue == units * pricePerUnit
  IN [month |-> months[index + 1], sales |-> revenue, revenue |-> revenue,
      units |-> units]

\* generateMockSalesData adding up the sales column for totalUnits
generateMockSalesData_UnitsFromSales(productId) ==
  LET monthlySales == [i \in 1..Len(months) |-> MonthlySales(productId, i - 1)]
      totalRevenue ==
        ReduceSum([i \in 1..Len(monthlySales) |-> monthlySales[i].revenue])
      totalUnits ==
        ReduceSum([i \in 1..Len(monthlySales) |-> monthlySales[i].sales])
  IN [productId |-> productId, monthlySales |-> monthlySales,
      totalRevenue |-> totalRevenue, totalUnits |-> totalUnits,
      averageMonthlySales |-> [num |-> totalRevenue,
                               den |-> Len(monthlySales)]]

\* SalesService.generateMockSalesData; the quotient averageMonthlySales is
\* kept as numerator and denominator
generateMockSalesData(productId) ==
  LET monthlySales == [i \in 1..Len(months) |-> MonthlySales(productId, i - 1)]
      totalRevenue ==
        ReduceSum([i \in 1..Len(monthlySales) |-> monthlySales[i].revenue])
      totalUnits ==
        ReduceSum([i \in 1..Len(monthlySales) |-> monthlySales[i].units])
  IN [productId |-> productId, monthlySales |-> monthlySales,
      totalRevenue |-> totalRevenue, totalUnits |-> totalUnits,
      averageMonthlySales |-> [num |-> totalRevenue,
                               den |-> Len(monthlySales)]]

\* -------------------------------------------------------------- HTTP layer
Url(path, id, category) == [path |-> path, id |-> id, category |-> category]

NoUrl == Url("", 0, <<>>)

Null == "null"

\* the category names of a dataset, each once
CategoriesOf(data) == {data[i].category : i \in 1..Len(data)}

RECURSIVE SetToSeq(_)
SetToSeq(S) ==
  IF S = {} THEN <<>>
  ELSE LET x == CHOOSE y \in S : TRUE IN <<x>> \o SetToSeq(S \ {x})

\* What fetch() may deliver for a GET of url against a catalog: it throws
\* (kind "throw"), or resolves to a response with a status and a body; a body
\* of {} is one response.json() fails to parse.  The catalog server is not
\* part of this repository; for an id it does not hold it may answer with an
\* error status, an empty body or a JSON null.
FetchOutcomes(url, data) ==
  LET Response(status, body) ==
        [kind |-> "response", ok |-> status \in 200..299, status |-> status,
         body |-> body]
      found == {i \in 1..Len(data) : data[i].id = url.id}
      InCategory(product) == product.category = url.category
  IN {[kind |-> "throw"], Response(500, {})}
       \cup
     CASE url.path = "/products" -> {Response(200, {data})}
       [] url.path = "/products/:id" ->
            IF found # {}
            THEN {Response(200, {data[CHOOSE i \in found : TRUE]})}
            ELSE {Response(404, {}), Response(200, {}), Response(200, {Null})}
       [] url.path = "/products/category/:category" ->
            {Response(200, {SelectSeq(data, InCategory)})}
       [] url.path = "/products/categories" ->
            {Response(200, {SetToSeq(CategoriesOf(data))})}

\* HttpGetResume without the response.ok test
HttpGetResume_IgnoresStatus(outcome) ==
  IF outcome.kind = "throw"
  THEN failure(ApiError("fetch failed", "FETCH_ERROR", {}))
  ELSE IF outcome.body = {}
  THEN failure(ApiError("Unexpected end of JSON input", "FETCH_ERROR", {}))
  ELSE success(OptVal(outcome.body))

\* FetchHttpClient.get after `await fetch(...)`
HttpGetResume(outcome) ==
  IF outcome.kind = "throw"
  THEN failure(ApiError("fetch failed", "FETCH_ERROR", {}))
  ELSE IF ~outcome.ok
  THEN failure(ApiError("HTTP Error", "HTTP_ERROR", {outcome.status}))
  ELSE IF outcome.body = {}
  THEN failure(ApiError("Unexpected end of JSON input", "FETCH_ERROR", {}))
  ELSE success(OptVal(outcome.body))

\* ------------------------------------------------------------------- state
VARIABLES
  dataset,       \* the catalog held by the remote source
  pc,            \* "idle", "fetching" (suspended in await fetch) or "done"
  op,            \* the operation in progress or just completed
  args,          \* its arguments
  url,           \* the URL of the GET in flight
  response,      \* what fetch delivered for it
  httpCalls,     \* GETs issued by the operation
  findAllCalls,  \* calls of repository.findAll made by the operation
  products,      \* getProducts' local `products` when it is paginated
  result,        \* the Result the operation returned
  repoData,      \* the array findAll resolved to, as the operation left it
  pagePc,        \* where ProductsContent stands
  productsResult,     \* its local productsResult
  categoriesResult,   \* its local categoriesResult
  initialProducts,    \* the prop handed to ProductList
  hookFilters,        \* useProductFilters: the state `filters`
  hookSort,           \* the state `sort`
  hookPagination,     \* the state `pagination`
  filteredProducts,   \* the memo filteredProducts
  totalPages,         \* the memo totalPages
  calls,         \* the getProducts calls in flight on the shared service
  detailPc,      \* where the product page /products/[id] stands
  productResult, \* ProductDetailContent's local productResult
  salesResult,   \* ProductDetailContent's local salesResult
  salesPc,       \* SalesService.getProductSalesMetrics: idle, waiting, done
  salesProductId,     \* its argument
  metricsResult,      \* the Result it returned
  theme,         \* ThemeProvider's state `theme`
  themeCookie,   \* the cookie `theme` ({} when absent)
  themeCalls     \* the setThemeCookie calls not yet completed, oldest first

serviceVars ==
  <<dataset, pc, op, args, url, response, httpCalls, findAllCalls, products,
    result, repoData>>

pageVars ==
  <<pagePc, productsResult, categoriesResult, initialProducts, hookFilters,
    hookSort, hookPagination, filteredProducts, totalPages>>

detailVars == <<detailPc, productResult, salesResult>>

salesVars == <<salesPc, salesProductId, metricsResult>>

themeVars == <<theme, themeCookie, themeCalls>>

uiVars == <<detailVars, salesVars, themeVars>>

vars == <<serviceVars, pageVars, calls, uiVars>>

NoResponse == [kind |-> "none"]

NoArgs ==
  [filters |-> {}, sort |-> {}, pagination |-> {}, id |-> 0, query |-> <<>>,
   category |-> <<>>]

NoResult == failure(ApiError("", "", {}))

\* useProductFilters: the initial values of useState
InitialSort == [field |-> "title", order |-> "asc"]
InitialPagination == [page |-> 1, limit |-> HookLimit]

\* ProductsContent has not been requested
PageNotStarted ==
  /\ pagePc = "start"
  /\ productsResult = NoResult
  /\ categoriesResult = NoResult
  /\ initialProducts = <<>>
  /\ hookFilters = NoFilters
  /\ hookSort = InitialSort
  /\ hookPagination = InitialPagination
  /\ filteredProducts = <<>>
  /\ totalPages = 0

\* no product page requested, no sales metrics asked for, the light theme
\* shown and no theme cookie set
UiNotStarted ==
  /\ detailPc = "start"
  /\ productResult = NoResult
  /\ salesResult = NoResult
  /\ salesPc = "idle"
  /\ salesProductId = 0
  /\ metricsResult = NoResult
  /\ theme = "light"
  /\ themeCookie = {}
  /\ themeCalls = <<>>

\* the callers of the shared ProductService
Callers == {1, 2}

NoCall ==
  [pc |-> "idle", args |-> NoArgs, response |-> NoResponse,
   products |-> <<>>, result |-> NoResult]

NoCalls == [c \in Callers |-> NoCall]

Init ==
  /\ dataset \in Catalogs
  /\ pc = "idle"
  /\ op = ""
  /\ args = NoArgs
  /\ url = NoUrl
  /\ response = NoResponse
  /\ httpCalls = 0
  /\ findAllCalls = 0
  /\ products = <<>>
  /\ result = NoResult
  /\ repoData = <<>>
  /\ PageNotStarted
  /\ calls = NoCalls
  /\ UiNotStarted

\* FetchHttpClient.get up to `await fetch(fullURL, ...)`
HttpGet(u) ==
  /\ url' = u
  /\ httpCalls' = httpCalls + 1
  /\ pc' = "fetching"

\* an operation returning without a GET
ReturnNow(r) ==
  /\ result' = r
  /\ pc' = "done"
  /\ UNCHANGED <<url, httpCalls>>

\* ProductRepository.findAll
findAll ==
  /\ findAllCalls' = findAllCalls + 1
  /\ HttpGet(Url("/products", 0, <<>>))

\* findById rejecting only negative ids
findById_NegativeOnly(id) ==
  IF id < 0
  THEN ReturnNow(failure(ApiError("Invalid product ID", "INVALID_ID", {})))
  ELSE HttpGet(Url("/products/:id", id, <<>>)) /\ UNCHANGED result

\* ProductRepository.findById
findById(id) ==
  IF id <= 0
  THEN ReturnNow(failure(ApiError("Invalid product ID", "INVALID_ID", {})))
  ELSE HttpGet(Url("/products/:id", id, <<>>)) /\ UNCHANGED result

\* ProductRepository.findByCategory
findByCategory(category) ==
  IF ~Truthy(category) \/ trim(category) = <<>>
  THEN ReturnNow(failure(ApiError("Category cannot be empty",
                                  "INVALID_CATEGORY", {})))
  ELSE HttpGet(Url("/products/category/:category", 0, category))
         /\ UNCHANGED result

\* ProductRepository.getAllCategories
getAllCategories == HttpGet(Url("/products/categories", 0, <<>>))

\* ProductService.getProducts up to `await this.repository.findAll()`
GetProducts(filters, sort, pagination) ==
  /\ pc = "idle"
  /\ op' = "getProducts"
  /\ args' = [NoArgs EXCEPT !.filters = filters, !.sort = sort,
                            !.pagination = pagination]
  /\ findAll
  /\ UNCHANGED <<dataset, response, products, result, repoData>>
  /\ UNCHANGED <<pageVars, calls, uiVars>>

\* ProductService.getProductById
GetProductById(id) ==
  /\ pc = "idle"
  /\ op' = "getProductById"
  /\ args' = [NoArgs EXCEPT !.id = id]
  /\ findById(id)
  /\ UNCHANGED <<dataset, response, findAllCalls, products, repoData>>
  /\ UNCHANGED <<pageVars, calls, uiVars>>

\* ProductService.getCategories
GetCategories ==
  /\ pc = "idle"
  /\ op' = "getCategories"
  /\ args' = NoArgs
  /\ getAllCategories
  /\ UNCHANGED <<dataset, response, findAllCalls, products, result, repoData>>
  /\ UNCHANGED <<pageVars, calls, uiVars>>

\* SearchProducts rejecting only the empty string, not a blank one
SearchProducts_NoTrim(query) ==
  /\ pc = "idle"
  /\ op' = "searchProducts"
  /\ args' = [NoArgs EXCEPT !.query = query]
  /\ IF ~Truthy(query)
     THEN /\ ReturnNow(failure(ApiError("Search query cannot be empty",
                                        "INVALID_QUERY", {})))
          /\ UNCHANGED findAllCalls
     ELSE findAll /\ UNCHANGED result
  /\ UNCHANGED <<dataset, response, products, repoData>>
  /\ UNCHANGED <<pageVars, calls, uiVars>>

\* ProductService.searchProducts up to `await this.repository.findAll()`
SearchProducts(query) ==
  /\ pc = "idle"
  /\ op' = "searchProducts"
  /\ args' = [NoArgs EXCEPT !.query = query]
  /\ IF ~Truthy(query) \/ trim(query) = <<>>
     THEN /\ ReturnNow(failure(ApiError("Search query cannot be empty",
                                        "INVALID_QUERY", {})))
          /\ UNCHANGED findAllCalls
     ELSE findAll /\ UNCHANGED result
  /\ UNCHANGED <<dataset, response, products, repoData>>
  /\ UNCHANGED <<pageVars, calls, uiVars>>

\* a direct caller of ProductRepository.findByCategory
FindByCategory(category) ==
  /\ pc = "idle"
  /\ op' = "findByCategory"
  /\ args' = [NoArgs EXCEPT !.category = category]
  /\ findByCategory(category)
  /\ UNCHANGED <<dataset, response, findAllCalls, products, repoData>>
  /\ UNCHANGED <<pageVars, calls, uiVars>>

\* FetchSettles issuing the GET a second time when the first one failed
FetchSettles_RetryOnce ==
  /\ pc = "fetching"
  /\ \E outcome \in FetchOutcomes(url, dataset) :
       LET httpResult == HttpGetResume(outcome)
           resumed == GetProductsResume(httpResult, args.filters, args.sort,
                                        args.pagination)
       IN IF ~httpResult.success /\ httpCalls < 2
          THEN /\ httpCalls' = httpCalls + 1
               /\ UNCHANGED <<pc, response, products, result, repoData>>
          ELSE /\ response' = outcome
               /\ pc' = "done"
               /\ UNCHANGED httpCalls
               /\ CASE op = "getProducts" ->
                         /\ products' = resumed.products
                         /\ result' = resumed.result
                         /\ repoData' = resumed.input
                    [] op = "searchProducts" ->
                         /\ products' = products
                         /\ result' = SearchProductsResume(httpResult, args.query)
                         /\ repoData' = IF httpResult.success
                                        THEN httpResult.data ELSE <<>>
                    [] OTHER ->
                         /\ products' = products
                         /\ result' = httpResult
                         /\ repoData' = repoData
  /\ UNCHANGED <<dataset, op, args, url, findAllCalls>>
  /\ UNCHANGED <<pageVars, calls, uiVars>>

\* fetch settles: FetchHttpClient.get returns its Result, the repository
\* method returns it unchanged, and the suspended service method runs on to
\* its return
FetchSettles ==
  /\ pc = "fetching"
  /\ \E outcome \in FetchOutcomes(url, dataset) :
       LET httpResult == HttpGetResume(outcome)
           resumed == GetProductsResume(httpResult, args.filters, args.sort,
                                        args.pagination)
       IN /\ response' = outcome
          /\ CASE op = "getProducts" ->
                    /\ products' = resumed.products
                    /\ result' = resumed.result
                    /\ repoData' = resumed.input
               [] op = "searchProducts" ->
                    /\ products' = products
                    /\ result' = SearchProductsResume(httpResult, args.query)
                    /\ repoData' = IF httpResult.success
                                   THEN httpResult.data ELSE <<>>
               [] OTHER ->
                    /\ products' = products
                    /\ result' = httpResult
                    /\ repoData' = repoData
  /\ pc' = "done"
  /\ UNCHANGED <<dataset, op, args, url, httpCalls, findAllCalls>>
  /\ UNCHANGED <<pageVars, calls, uiVars>>

\* the caller takes the Result; the service is ready for the next operation
Return ==
  /\ pc = "done"
  /\ pc' = "idle"
  /\ op' = ""
  /\ args' = NoArgs
  /\ url' = NoUrl
  /\ response' = NoResponse
  /\ httpCalls' = 0
  /\ findAllCalls' = 0
  /\ products' = <<>>
  /\ result' = NoResult
  /\ repoData' = <<>>
  /\ UNCHANGED dataset
  /\ UNCHANGED <<pageVars, calls, uiVars>>

Next ==
  \/ \E filters \in ServiceFilterArgs, sort \in ServiceSortArgs,
        pagination \in ServicePaginationArgs :
       GetProducts(filters, sort, pagination)
  \/ \E id \in IdArgs : GetProductById(id)
  \/ GetCategories
  \/ \E query \in Queries : SearchProducts(query)
  \/ \E category \in CategoryArgs : FindByCategory(category)
  \/ FetchSettles
  \/ Return

Spec == Init /\ [][Next]_vars

\* ------------------------------------------- the query pipeline on its own
\* getProducts from call to return over a repository whose findAll resolves
\* to success(dataset): the GET of /products is answered 200 with the dataset
Query(filters, sort, pagination) ==
  /\ pc = "idle"
  /\ LET fetched == [kind |-> "response", ok |-> TRUE, status |-> 200,
                     body |-> {dataset}]
         resumed == GetProductsResume(HttpGetResume(fetched), filters, sort,
                                      pagination)
     IN /\ response' = fetched
        /\ products' = resumed.products
        /\ result' = resumed.result
        /\ repoData' = resumed.input
  /\ pc' = "done"
  /\ op' = "getProducts"
  /\ args' = [NoArgs EXCEPT !.filters = filters, !.sort = sort,
                            !.pagination = pagination]
  /\ url' = Url("/products", 0, <<>>)
  /\ httpCalls' = httpCalls + 1
  /\ findAllCalls' = findAllCalls + 1
  /\ UNCHANGED dataset
  /\ UNCHANGED <<pageVars, calls, uiVars>>

InitQuery ==
  /\ dataset \in Datasets
  /\ pc = "idle"
  /\ op = ""
  /\ args = NoArgs
  /\ url = NoUrl
  /\ response = NoResponse
  /\ httpCalls = 0
  /\ findAllCalls = 0
  /\ products = <<>>
  /\ result = NoResult
  /\ repoData = <<>>
  /\ PageNotStarted
  /\ calls = NoCalls
  /\ UiNotStarted

NextQuery ==
  \/ \E filters \in FilterArgs, sort \in SortArgs, pagination \in PaginationArgs :
       Query(filters, sort, pagination)
  \/ Return

SpecQuery == InitQuery /\ [][NextQuery]_vars

\* --------------------------------------------------------- the products page
\* the catalogs the products page is loaded over: short ones in every order,
\* and one that does not fit on a page of the hook
PageCatalogs ==
  {s \in Datasets : Len(s) < MaxProducts} \cup {Catalog(HookLimit + 1)}

\* the values the filter bar hands to updateFilter: undefined, '' and a value
HookFilterKeys == {"category", "search", "minPrice", "maxPrice"}
StringKeys == {"category", "search"}

HookValues(key) ==
  CASE key = "category" -> {{}, {<<>>}, {Electronics}}
    [] key = "search" -> {{}, {<<>>}, {<<"A">>}, {<<" ">>}}
    [] key = "minPrice" -> {{}, {2}}
    [] key = "maxPrice" -> {{}, {0}, {2}}

\* a render of ProductList: the state set by the handler, and the memos
\* recomputed from the prop and that state
Render(props, filters, sort, pagination) ==
  LET computed == useFilteredProducts(props, filters, sort, pagination)
  IN /\ hookFilters' = filters
     /\ hookSort' = sort
     /\ hookPagination' = pagination
     /\ initialProducts' = computed.initialProducts
     /\ filteredProducts' = computed.filteredProducts
     /\ totalPages' = useTotalPages(props, filters, pagination)

\* ProductsContent: `await productService.getProducts()`, from call to return;
\* the service variables follow one operation at a time, so the page's call
\* is taken when none is in progress
PageGetProducts ==
  /\ pagePc = "start"
  /\ pc = "idle"
  /\ \E outcome \in FetchOutcomes(Url("/products", 0, <<>>), dataset) :
       LET resumed == GetProductsResume(HttpGetResume(outcome), {}, {}, {})
       IN /\ productsResult' = resumed.result
          /\ repoData' = resumed.input
  /\ httpCalls' = httpCalls + 1
  /\ findAllCalls' = findAllCalls + 1
  /\ pagePc' = "gotProducts"
  /\ UNCHANGED <<dataset, pc, op, args, url, response, products, result>>
  /\ UNCHANGED <<categoriesResult, initialProducts, hookFilters, hookSort,
                 hookPagination, filteredProducts, totalPages, calls, uiVars>>

\* ProductsContent: `await productService.getCategories()`, then the two
\* checks, then the first render of ProductList
PageGetCategories ==
  /\ pagePc = "gotProducts"
  /\ \E outcome \in FetchOutcomes(Url("/products/categories", 0, <<>>),
                                  dataset) :
       LET fetched == HttpGetResume(outcome)
       IN /\ categoriesResult' = fetched
          /\ IF productsResult.success /\ fetched.success
             THEN /\ pagePc' = "rendered"
                  /\ Render(productsResult.data.data, NoFilters, InitialSort,
                            InitialPagination)
             ELSE /\ pagePc' = "error"
                  /\ UNCHANGED <<initialProducts, hookFilters, hookSort,
                                 hookPagination, filteredProducts, totalPages>>
  /\ httpCalls' = httpCalls + 1
  /\ UNCHANGED <<dataset, pc, op, args, url, response, findAllCalls, products,
                 result, repoData>>
  /\ UNCHANGED <<productsResult, calls, uiVars>>

\* updateFilter staying on the current page
updateFilter_KeepPage(key, value) ==
  /\ pagePc = "rendered"
  /\ LET removed == value = {} \/ (key \in StringKeys /\ value = {<<>>})
         next == IF removed THEN [hookFilters EXCEPT ![key] = {}]
                 ELSE [hookFilters EXCEPT ![key] = value]
     IN Render(initialProducts, next, hookSort, hookPagination)
  /\ UNCHANGED <<serviceVars, pagePc, productsResult, categoriesResult, calls, uiVars>>

\* updateFilter going back to the initial sort as well as to page 1
updateFilter_ResetSort(key, value) ==
  /\ pagePc = "rendered"
  /\ LET removed == value = {} \/ (key \in StringKeys /\ value = {<<>>})
         next == IF removed THEN [hookFilters EXCEPT ![key] = {}]
                 ELSE [hookFilters EXCEPT ![key] = value]
     IN Render(initialProducts, next, InitialSort,
               [hookPagination EXCEPT !.page = 1])
  /\ UNCHANGED <<serviceVars, pagePc, productsResult, categoriesResult, calls, uiVars>>

\* updateFilter removing the key for every falsy value (`!value`), 0 included
updateFilter_FalsyRemoves(key, value) ==
  /\ pagePc = "rendered"
  /\ LET removed == \/ value = {}
                    \/ key \in StringKeys /\ value = {<<>>}
                    \/ key \notin StringKeys /\ value = {0}
         next == IF removed THEN [hookFilters EXCEPT ![key] = {}]
                 ELSE [hookFilters EXCEPT ![key] = value]
     IN Render(initialProducts, next, hookSort,
               [hookPagination EXCEPT !.page = 1])
  /\ UNCHANGED <<serviceVars, pagePc, productsResult, categoriesResult, calls, uiVars>>

\* updateFilter asking the service for the products again
updateFilter_Refetch(key, value) ==
  /\ pagePc = "rendered"
  /\ \E outcome \in FetchOutcomes(Url("/products", 0, <<>>), dataset) :
       LET resumed == GetProductsResume(HttpGetResume(outcome), {}, {}, {})
           removed == value = {} \/ (key \in StringKeys /\ value = {<<>>})
           next == IF removed THEN [hookFilters EXCEPT ![key] = {}]
                   ELSE [hookFilters EXCEPT ![key] = value]
       IN /\ productsResult' = resumed.result
          /\ repoData' = resumed.input
          /\ Render(IF resumed.result.success THEN resumed.result.data.data
                    ELSE <<>>,
                    next, hookSort, [hookPagination EXCEPT !.page = 1])
  /\ httpCalls' = httpCalls + 1
  /\ findAllCalls' = findAllCalls + 1
  /\ UNCHANGED <<dataset, pc, op, args, url, response, products, result>>
  /\ UNCHANGED <<pagePc, categoriesResult, calls, uiVars>>

\* useProductFilters.updateFilter
updateFilter(key, value) ==
  /\ pagePc = "rendered"
  /\ LET removed == value = {} \/ (key \in StringKeys /\ value = {<<>>})
         next == IF removed THEN [hookFilters EXCEPT ![key] = {}]
                 ELSE [hookFilters EXCEPT ![key] = value]
     IN Render(initialProducts, next, hookSort,
               [hookPagination EXCEPT !.page = 1])
  /\ UNCHANGED <<serviceVars, pagePc, productsResult, categoriesResult, calls, uiVars>>

\* updateSort toggling the order whatever the field
updateSort_AlwaysToggle(field) ==
  /\ pagePc = "rendered"
  /\ LET order == IF hookSort.order = "asc" THEN "desc" ELSE "asc"
     IN Render(initialProducts, hookFilters,
               [field |-> field, order |-> order], hookPagination)
  /\ UNCHANGED <<serviceVars, pagePc, productsResult, categoriesResult, calls, uiVars>>

\* useProductFilters.updateSort
updateSort(field) ==
  /\ pagePc = "rendered"
  /\ LET order == IF hookSort.field = field /\ hookSort.order = "asc"
                  THEN "desc" ELSE "asc"
     IN Render(initialProducts, hookFilters,
               [field |-> field, order |-> order], hookPagination)
  /\ UNCHANGED <<serviceVars, pagePc, productsResult, categoriesResult, calls, uiVars>>

\* useProductFilters.setPage, called by the Pagination control, which
\* ProductList renders when filteredProducts is not empty
setPage(page) ==
  /\ pagePc = "rendered"
  /\ filteredProducts # <<>>
  /\ Render(initialProducts, hookFilters, hookSort,
            [hookPagination EXCEPT !.page = page])
  /\ UNCHANGED <<serviceVars, pagePc, productsResult, categoriesResult, calls, uiVars>>

\* resetFilters keeping the sort the user chose
resetFilters_KeepSort ==
  /\ pagePc = "rendered"
  /\ Render(initialProducts, NoFilters, hookSort, InitialPagination)
  /\ UNCHANGED <<serviceVars, pagePc, productsResult, categoriesResult, calls, uiVars>>

\* useProductFilters.resetFilters
resetFilters ==
  /\ pagePc = "rendered"
  /\ Render(initialProducts, NoFilters, InitialSort, InitialPagination)
  /\ UNCHANGED <<serviceVars, pagePc, productsResult, categoriesResult, calls, uiVars>>

InitPage ==
  /\ dataset \in PageCatalogs
  /\ pc = "idle"
  /\ op = ""
  /\ args = NoArgs
  /\ url = NoUrl
  /\ response = NoResponse
  /\ httpCalls = 0
  /\ findAllCalls = 0
  /\ products = <<>>
  /\ result = NoResult
  /\ repoData = <<>>
  /\ PageNotStarted
  /\ calls = NoCalls
  /\ UiNotStarted

NextPage ==
  \/ PageGetProducts
  \/ PageGetCategories
  \/ \E key \in HookFilterKeys : \E value \in HookValues(key) :
       updateFilter(key, value)
  \/ \E field \in {"title", "price", "rating"} : updateSort(field)
  \/ \E page \in 1..MaxPage : setPage(page)
  \/ resetFilters

SpecPage == InitPage /\ [][NextPage]_vars

\* the products page with a pagination control that offers the pages
\* 1..totalPages
NextPageControl ==
  \/ PageGetProducts
  \/ PageGetCategories
  \/ \E key \in HookFilterKeys : \E value \in HookValues(key) :
       updateFilter(key, value)
  \/ \E field \in {"title", "price", "rating"} : updateSort(field)
  \/ \E page \in 1..totalPages : setPage(page)
  \/ resetFilters

SpecPageControl == InitPage /\ [][NextPageControl]_vars

\* ------------------------------------------ calls in flight at the same time
\* caller c calls getProducts on the shared service: the call runs up to
\* `await this.repository.findAll()` with its own parameters
Call(c, filters, sort, pagination) ==
  /\ calls[c].pc = "idle"
  /\ calls' = [calls EXCEPT ![c] =
                 [NoCall EXCEPT !.pc = "fetching",
                                !.args = [NoArgs EXCEPT !.filters = filters,
                                                        !.sort = sort,
                                                        !.pagination = pagination]]]
  /\ UNCHANGED <<serviceVars, pageVars, uiVars>>

\* Settle resuming the call with the parameters of the call made last, as a
\* service keeping them in a field of the singleton would
Settle_SharedParameters(c) ==
  /\ calls[c].pc = "fetching"
  /\ \E outcome \in FetchOutcomes(Url("/products", 0, <<>>), dataset) :
       LET others == {d \in Callers : d # c /\ calls[d].pc = "fetching"}
           last == IF others = {} THEN c ELSE CHOOSE d \in others : TRUE
           resumed == GetProductsResume(HttpGetResume(outcome),
                                        calls[last].args.filters,
                                        calls[last].args.sort,
                                        calls[last].args.pagination)
       IN calls' = [calls EXCEPT ![c].pc = "done",
                                 ![c].response = outcome,
                                 ![c].products = resumed.products,
                                 ![c].result = resumed.result]
  /\ UNCHANGED <<serviceVars, pageVars, uiVars>>

\* the fetch of caller c's call settles and the call runs to its return: it
\* reads its own parameters and locals, and the repository's answer
Settle(c) ==
  /\ calls[c].pc = "fetching"
  /\ \E outcome \in FetchOutcomes(Url("/products", 0, <<>>), dataset) :
       LET resumed == GetProductsResume(HttpGetResume(outcome),
                                        calls[c].args.filters,
                                        calls[c].args.sort,
                                        calls[c].args.pagination)
       IN calls' = [calls EXCEPT ![c].pc = "done",
                                 ![c].response = outcome,
                                 ![c].products = resumed.products,
                                 ![c].result = resumed.result]
  /\ UNCHANGED <<serviceVars, pageVars, uiVars>>

\* caller c takes the Result
Take(c) ==
  /\ calls[c].pc = "done"
  /\ calls' = [calls EXCEPT ![c] = NoCall]
  /\ UNCHANGED <<serviceVars, pageVars, uiVars>>

InitConcurrent ==
  /\ dataset \in {s \in Datasets : Len(s) = MaxProducts}
  /\ pc = "idle"
  /\ op = ""
  /\ args = NoArgs
  /\ url = NoUrl
  /\ response = NoResponse
  /\ httpCalls = 0
  /\ findAllCalls = 0
  /\ products = <<>>
  /\ result = NoResult
  /\ repoData = <<>>
  /\ PageNotStarted
  /\ calls = NoCalls
  /\ UiNotStarted

NextConcurrent ==
  \/ \E c \in Callers, filters \in ServiceFilterArgs, sort \in ServiceSortArgs,
        pagination \in ServicePaginationArgs :
       Call(c, filters, sort, pagination)
  \/ \E c \in Callers : Settle(c)
  \/ \E c \in Callers : Take(c)

SpecConcurrent == InitConcurrent /\ [][NextConcurrent]_vars

\* ------------------------------------------------------- the sales service
\* SalesService.getProductSalesMetrics up to `await new Promise(...)`
getProductSalesMetrics(productId) ==
  /\ salesPc = "idle"
  /\ salesPc' = "waiting"
  /\ salesProductId' = productId
  /\ UNCHANGED <<metricsResult, serviceVars, pageVars, calls, detailVars,
                 themeVars>>

\* the 100 ms timer fires: the metrics are generated and returned
SalesTimerFires ==
  /\ salesPc = "waiting"
  /\ salesPc' = "done"
  /\ metricsResult' = success(generateMockSalesData(salesProductId))
  /\ UNCHANGED <<salesProductId, serviceVars, pageVars, calls, detailVars,
                 themeVars>>

\* the caller takes the metrics
SalesTake ==
  /\ salesPc = "done"
  /\ salesPc' = "idle"
  /\ salesProductId' = 0
  /\ metricsResult' = NoResult
  /\ UNCHANGED <<serviceVars, pageVars, calls, detailVars, themeVars>>

NextSales ==
  \/ \E productId \in (-MaxSalesId)..MaxSalesId :
       getProductSalesMetrics(productId)
  \/ SalesTimerFires
  \/ SalesTake

\* the sales service needs no catalog
InitSales == InitPage /\ dataset = <<>>

SpecSales == InitSales /\ [][NextSales]_vars

\* ------------------------------------------------------ the detail page
\* the catalog holds a product of this id
HasProduct(id) == \E i \in 1..Len(dataset) : dataset[i].id = id

\* ProductPage: idParam is Number(id), {} standing for NaN.  An id that is
\* not a positive number ends in the not-found view; otherwise
\* ProductDetailContent starts getProductById(id) and
\* getProductSalesMetrics(id) together (salesProductId holds the id of both).
ProductPage(idParam) ==
  /\ detailPc = "start"
  /\ salesPc = "idle"
  /\ IF idParam = {} \/ OptVal(idParam) <= 0
     THEN /\ detailPc' = "notFound"
          /\ UNCHANGED <<httpCalls, salesVars>>
     ELSE /\ detailPc' = "fetching"
          /\ httpCalls' = httpCalls + 1
          /\ salesPc' = "waiting"
          /\ salesProductId' = OptVal(idParam)
          /\ UNCHANGED metricsResult
  /\ UNCHANGED <<dataset, pc, op, args, url, response, findAllCalls, products,
                 result, repoData>>
  /\ UNCHANGED <<productResult, salesResult, pageVars, calls, themeVars>>

\* the GET issued by getProductById(id) settles
DetailFetchSettles ==
  /\ detailPc = "fetching"
  /\ \E outcome \in FetchOutcomes(Url("/products/:id", salesProductId, <<>>),
                                  dataset) :
       productResult' = HttpGetResume(outcome)
  /\ detailPc' = "gotProduct"
  /\ UNCHANGED <<salesResult, serviceVars, pageVars, calls, salesVars,
                 themeVars>>

\* ProductDetailContent without the notFound() check: the body is built from
\* whatever productResult holds, and reading a field of undefined throws
ProductDetailContent_NoNotFound ==
  /\ detailPc = "gotProduct"
  /\ salesPc = "done"
  /\ salesResult' = metricsResult
  /\ detailPc' = IF ~metricsResult.success THEN "error"
                 ELSE IF ~productResult.success THEN "error"
                 ELSE IF ~HasProduct(salesProductId) THEN "error"
                 ELSE "rendered"
  /\ UNCHANGED <<productResult, serviceVars, pageVars, calls, salesVars,
                 themeVars>>

\* ProductDetailContent once Promise.all has both results: the two checks,
\* then the body.  A successful result for an id the catalog does not hold
\* carries null, and reading product.image throws.
ProductDetailContent ==
  /\ detailPc = "gotProduct"
  /\ salesPc = "done"
  /\ salesResult' = metricsResult
  /\ detailPc' = IF ~productResult.success THEN "notFound"
                 ELSE IF ~metricsResult.success THEN "error"
                 ELSE IF ~HasProduct(salesProductId) THEN "error"
                 ELSE "rendered"
  /\ UNCHANGED <<productResult, serviceVars, pageVars, calls, salesVars,
                 themeVars>>

\* the two pages, each requested once
NextPages ==
  \/ PageGetProducts
  \/ PageGetCategories
  \/ \E idParam \in Opt(IdArgs) : ProductPage(idParam)
  \/ DetailFetchSettles
  \/ SalesTimerFires
  \/ ProductDetailContent

SpecPages == InitPage /\ [][NextPages]_vars

\* ---------------------------------------------------------------- the theme
\* setThemeCookie calls that may be pending at once
MaxPendingThemeCalls == 5

Themes == {"light", "dark"}

\* getThemeCookie: the stored theme, 'light' when there is no cookie
getThemeCookie(cookie) == IF cookie = {} THEN "light" ELSE OptVal(cookie)

\* ThemeProvider.setTheme: the state changes at once and setThemeCookie is
\* started without being awaited
setTheme(newTheme) ==
  /\ Len(themeCalls) < MaxPendingThemeCalls
  /\ theme' = newTheme
  /\ themeCalls' = Append(themeCalls, newTheme)
  /\ UNCHANGED <<themeCookie, serviceVars, pageVars, calls, detailVars,
                 salesVars>>

\* the oldest pending setThemeCookie call runs on the server: the cookie is set
SetThemeCookieCompletes ==
  /\ themeCalls # <<>>
  /\ themeCookie' = {Head(themeCalls)}
  /\ themeCalls' = Tail(themeCalls)
  /\ UNCHANGED <<theme, serviceVars, pageVars, calls, detailVars, salesVars>>

\* the oldest pending setThemeCookie call rejects (the request fails): the
\* .catch handler logs the error and nothing else happens
SetThemeCookieFails ==
  /\ themeCalls # <<>>
  /\ themeCalls' = Tail(themeCalls)
  /\ UNCHANGED <<theme, themeCookie, serviceVars, pageVars, calls, detailVars,
                 salesVars>>

\* a page refresh with no call pending: RootLayout reads the cookie and
\* ThemeProvider starts from it
Refresh ==
  /\ themeCalls = <<>>
  /\ theme' = getThemeCookie(themeCookie)
  /\ UNCHANGED <<themeCookie, themeCalls, serviceVars, pageVars, calls,
                 detailVars, salesVars>>

NextTheme ==
  \/ \E newTheme \in Themes : setTheme(newTheme)
  \/ SetThemeCookieCompletes
  \/ SetThemeCookieFails
  \/ Refresh

\* a first visit: no theme cookie yet, the light theme shown
InitTheme == InitPage /\ dataset = <<>>

SpecTheme == InitTheme /\ [][NextTheme]_vars

\* the service serving its other callers until the products page is requested,
\* then the products page
NextApp ==
  \/ pagePc = "start" /\ Next
  \/ NextPage

SpecApp == InitPage /\ [][NextApp]_vars

\* ================================================================== claims
\* what the claims say of a completed getProducts call
QueryDone == pc = "done" /\ op = "getProducts" /\ result.success

Page == result.data

EffectivePagination ==
  IF args.pagination = {}
  THEN [page |-> DefaultPage, limit |-> DefaultLimit]
  ELSE OptVal(args.pagination)

\* q occurs in text when letter case is ignored
ContainsIgnoringCase(text, q) ==
  \E off \in 0..(Len(text) - Len(q)) :
    \A k \in 1..Len(q) : Lower(text[off + k]) = Lower(q[k])

SatisfiesSearchAndPrice(product, f) ==
  /\ f.search # {} =>
       \/ ContainsIgnoringCase(product.title, OptVal(f.search))
       \/ ContainsIgnoringCase(product.description, OptVal(f.search))
  /\ f.minPrice # {} => product.price >= OptVal(f.minPrice)
  /\ f.maxPrice # {} => product.price <= OptVal(f.maxPrice)

\* every supplied field of the filter is a constraint
SatisfiesSupplied(product) ==
  args.filters # {} =>
    LET f == OptVal(args.filters)
    IN /\ f.category # {} => product.category = OptVal(f.category)
       /\ SatisfiesSearchAndPrice(product, f)

\* as SatisfiesSupplied, but a category given as the empty string is no
\* constraint
SatisfiesApplied(product) ==
  args.filters # {} =>
    LET f == OptVal(args.filters)
    IN /\ (f.category # {} /\ OptVal(f.category) # <<>>) =>
            product.category = OptVal(f.category)
       /\ SatisfiesSearchAndPrice(product, f)

PositionIn(seq, product) == CHOOSE i \in 1..Len(seq) : seq[i].id = product.id

\* data holds exactly the elements of source that are in kept, in source's
\* order
IsSelection(data, source, kept) ==
  /\ \A i \in 1..Len(data) :
       /\ \E j \in 1..Len(source) : source[j] = data[i]
       /\ data[i] \in kept
  /\ \A j \in 1..Len(source) :
       source[j] \in kept => \E i \in 1..Len(data) : data[i] = source[j]
  /\ \A i, j \in 1..Len(data) :
       i < j => PositionIn(source, data[i]) < PositionIn(source, data[j])

Range(seq) == {seq[i] : i \in 1..Len(seq)}

\* the products of the dataset that satisfy every supplied field of the filter
MatchingSupplied == {product \in Range(dataset) : SatisfiesSupplied(product)}

\* the products of the dataset that pass the filter of the call
Matching == {product \in Range(dataset) : SatisfiesApplied(product)}

WholeResultOnPage ==
  EffectivePagination.page = 1 /\ EffectivePagination.limit >= Len(dataset)

\* C1 as stated: with no sort and a page that holds the whole result, data is
\* exactly the products of the dataset that satisfy every supplied constraint
\* of the filter (category equality, case-insensitive search in title or
\* description, inclusive price bounds), in their original order.
C1_AsStated ==
  (QueryDone /\ args.sort = {} /\ WholeResultOnPage)
    => IsSelection(Page.data, dataset, MatchingSupplied)

\* C1 amended: the same, where an absent field imposes no constraint and a
\* category given as the empty string imposes none either.
C1_FilterSelectsExactly ==
  (QueryDone /\ args.sort = {} /\ WholeResultOnPage)
    => IsSelection(Page.data, dataset, Matching)

C1_Witness ==
  /\ QueryDone /\ args.sort = {} /\ WholeResultOnPage
  /\ args.filters # {}
  /\ OptVal(args.filters).category = {Electronics}
  /\ OptVal(args.filters).search # {}
  /\ OptVal(args.filters).minPrice # {}
  /\ Len(Page.data) = 2
  /\ Len(dataset) = 3

IsPermutationOfMatching(seq) ==
  Len(seq) = Cardinality(Matching) /\ Range(seq) = Matching

\* a is not after b in ascending order of the key of field
KeyLeq(a, b, field) ==
  CASE field = "title" -> localeCompare(a.title, b.title) <= 0
    [] field = "price" -> a.price <= b.price
    [] field = "rating" -> a.rating.rate <= b.rating.rate

KeyEqual(a, b, field) ==
  CASE field = "title" -> a.title = b.title
    [] field = "price" -> a.price = b.price
    [] field = "rating" -> a.rating.rate = b.rating.rate

InOrder(a, b, sort) ==
  IF sort.order = "asc" THEN KeyLeq(a, b, sort.field) ELSE KeyLeq(b, a, sort.field)

IdsOf(seq) == [i \in 1..Len(seq) |-> seq[i].id]

\* the dataset with every rating.count replaced by 0
WithoutCounts == [i \in 1..Len(dataset) |-> [dataset[i] EXCEPT !.rating.count = 0]]

\* C2: with a sort spec, the sequence getProducts paginates is a permutation
\* of the filtered products whose adjacent pairs are in non-decreasing (asc)
\* or non-increasing (desc) order of the chosen key; the rating key is
\* rating.rate only: the order is the one the same products have with every
\* rating.count erased.
C2_SortedPermutation ==
  (QueryDone /\ args.sort # {}) =>
    LET sort == OptVal(args.sort)
    IN /\ IsPermutationOfMatching(products)
       /\ \A i \in 1..(Len(products) - 1) :
            InOrder(products[i], products[i + 1], sort)
       /\ IdsOf(products) =
            IdsOf(GetProductsResume(success(WithoutCounts), args.filters,
                                    args.sort, args.pagination).products)

C2_Witness ==
  /\ QueryDone
  /\ args.sort = {[field |-> "rating", order |-> "desc"]}
  /\ Len(products) = 3
  /\ products[1].rating.rate > products[3].rating.rate
  /\ products[1].rating.count < products[3].rating.count
  /\ IdsOf(products) # IdsOf(dataset)

\* C3: sorting is stable for asc and for desc: two products with an equal
\* sort key appear in the sorted sequence in the relative order they have in
\* the input sequence.
C3_SortStable ==
  (QueryDone /\ args.sort # {}) =>
    \A i, j \in 1..Len(products) :
      (i < j /\ KeyEqual(products[i], products[j], OptVal(args.sort).field))
        => PositionIn(dataset, products[i]) < PositionIn(dataset, products[j])

C3_Witness ==
  /\ QueryDone
  /\ args.sort = {[field |-> "price", order |-> "desc"]}
  /\ Len(products) = 3
  /\ products[2].price = products[3].price
  /\ products[1].price > products[2].price
  /\ PositionIn(dataset, products[1]) = 3

\* the number of matching products that sort strictly before product, and
\* the number that sort before it or have its key
StrictlyBefore(product, sort) ==
  Cardinality({m \in Matching : ~InOrder(product, m, sort)})

NotAfter(product, sort) ==
  Cardinality({m \in Matching : InOrder(m, product, sort)})

\* C4: filter, then sort, then paginate: every returned product passes the
\* filter, total counts the filtered products, and with a sort the i-th
\* product of page p has rank (p-1)*limit + i among the filtered products in
\* the sort order (never a rank within an unfiltered or unsorted window).
C4_FilterSortPaginate ==
  (QueryDone /\ EffectivePagination.page >= 1) =>
    LET offset == (EffectivePagination.page - 1) * EffectivePagination.limit
    IN /\ \A i \in 1..Len(Page.data) : Page.data[i] \in Matching
       /\ Page.total = Cardinality(Matching)
       /\ Len(Page.data) =
            Max(0, Min(EffectivePagination.limit, Cardinality(Matching) - offset))
       /\ args.sort # {} =>
            \A i \in 1..Len(Page.data) :
              /\ StrictlyBefore(Page.data[i], OptVal(args.sort)) <= offset + i - 1
              /\ NotAfter(Page.data[i], OptVal(args.sort)) >= offset + i

C4_Witness ==
  /\ QueryDone
  /\ args.filters # {} /\ args.sort # {} /\ args.pagination # {}
  /\ EffectivePagination.page = 2
  /\ Len(Page.data) = 1
  /\ Cardinality(Matching) = 2
  /\ Len(dataset) = 3
  /\ Page.data[1] # dataset[2]
  /\ dataset[1] \notin Matching

\* C5: for page p >= 1 and limit s >= 1 data is the elements at zero-based
\* offsets (p-1)*s .. (p-1)*s+s-1 of the filtered-and-sorted sequence, clipped
\* to its bounds; for p > totalPages the call succeeds with empty data and the
\* total and totalPages that page 1 reports.
C5_PageWindow ==
  (pc = "done" /\ op = "getProducts" /\ EffectivePagination.page >= 1
     /\ EffectivePagination.limit >= 1) =>
    LET p == EffectivePagination.page
        s == EffectivePagination.limit
        offset == (p - 1) * s
        first == GetProductsResume(success(dataset), args.filters, args.sort,
                                   {[page |-> 1, limit |-> s]}).result.data
    IN /\ result.success
       /\ Len(Page.data) = Max(0, Min(s, Len(products) - offset))
       /\ \A i \in 1..Len(Page.data) : Page.data[i] = products[offset + i]
       /\ p > Page.totalPages =>
            /\ Page.data = <<>>
            /\ Page.total = first.total
            /\ Page.totalPages = first.totalPages

C5_Witness ==
  /\ QueryDone
  /\ EffectivePagination.page = Page.totalPages + 1
  /\ Page.totalPages = 1
  /\ Page.data = <<>>
  /\ Page.total = 2
  /\ Len(dataset) = 3

\* the least number of pages of the given size that hold total products
PagesNeeded(total, limit) ==
  CHOOSE n \in 0..total : n * limit >= total /\ \A m \in 0..total : m * limit >= total => n <= m

\* C6: with limit >= 1, total is the number of products matching the filter,
\* whatever the page and the sort, and totalPages is ceil(total / limit).
C6_TotalAndTotalPages ==
  (QueryDone /\ EffectivePagination.limit >= 1) =>
    /\ Page.total = Cardinality(Matching)
    /\ Page.totalPages = PagesNeeded(Page.total, EffectivePagination.limit)

C6_Witness ==
  /\ QueryDone
  /\ Page.total = 3
  /\ EffectivePagination.limit = 2
  /\ Page.totalPages = 2
  /\ args.sort # {}
  /\ EffectivePagination.page = 2

\* C7 as stated: getProducts() called with no filter, sort or pagination
\* returns every product the repository returned (data length = total =
\* dataset size), for a catalog of any size.
C7_AsStated ==
  (QueryDone /\ args.filters = {} /\ args.sort = {} /\ args.pagination = {})
    => /\ Page.data = dataset
       /\ Len(Page.data) = Page.total
       /\ Page.total = Len(dataset)

\* the remote source was reached and did not fail itself
ServerAnswered == response.kind = "response" /\ response.status < 500

\* C8 as stated: getProductById(id) for an id that is not in the catalog
\* returns a failure whose error code is NOT_FOUND, through ProductService,
\* ProductRepository and FetchHttpClient, whenever the remote source answers.
C8_AsStated ==
  (pc = "done" /\ op = "getProductById" /\ args.id > 0 /\ ~HasProduct(args.id)
     /\ ServerAnswered)
    => (~result.success /\ result.error.code = "NOT_FOUND")

\* a string that is empty or holds only white space
IsBlank(text) == \A i \in 1..Len(text) : text[i] = " "

\* C9: searchProducts with an empty or whitespace-only query returns a failure
\* with code INVALID_QUERY, never a success, and returns it without calling
\* the repository: the call never suspends and issues no findAll and no GET.
C9_BlankQueryRejected ==
  (op = "searchProducts" /\ IsBlank(args.query))
    => /\ pc = "done"
       /\ ~result.success
       /\ result.error.code = "INVALID_QUERY"
       /\ findAllCalls = 0
       /\ httpCalls = 0

C9_Witness ==
  /\ pc = "done" /\ op = "searchProducts"
  /\ args.query = <<" ", " ">>
  /\ ~result.success /\ result.error.code = "INVALID_QUERY"
  /\ findAllCalls = 0
  /\ Len(dataset) > 0

\* C10: findById with id <= 0 returns a failure with code INVALID_ID and
\* findByCategory with an empty or whitespace-only category returns a failure
\* with code INVALID_CATEGORY; neither suspends in a GET and no HTTP call is
\* issued.
C10_InvalidArgumentsRejected ==
  /\ (op = "getProductById" /\ args.id <= 0)
       => /\ pc = "done"
          /\ ~result.success
          /\ result.error.code = "INVALID_ID"
          /\ httpCalls = 0
  /\ (op = "findByCategory" /\ IsBlank(args.category))
       => /\ pc = "done"
          /\ ~result.success
          /\ result.error.code = "INVALID_CATEGORY"
          /\ httpCalls = 0

C10_Witness ==
  /\ pc = "done" /\ op = "findByCategory"
  /\ args.category = <<" ">>
  /\ ~result.success /\ result.error.code = "INVALID_CATEGORY"
  /\ httpCalls = 0
  /\ Len(dataset) > 0

\* what fetch delivered, read off the response alone
FetchThrew == response.kind = "throw"
StatusOk == response.kind = "response" /\ response.status \in 200..299
StatusNotOk == response.kind = "response" /\ response.status \notin 200..299
BodyParsed == StatusOk /\ response.body # {}

\* the operations that return the Result of FetchHttpClient.get as it is
PassThroughOps == {"getProductById", "getCategories", "findByCategory"}

\* C11: FetchHttpClient.get completes with a tagged Result: a non-success
\* status gives a failure with code HTTP_ERROR carrying that status, a thrown
\* transport or parsing error gives a failure with code FETCH_ERROR, and a
\* success is produced only for an OK status whose body was parsed, and holds
\* that body.
C11_GetReturnsTaggedResult ==
  (pc = "done" /\ response.kind # "none") =>
    /\ StatusNotOk =>
         /\ ~result.success
         /\ result.error.code = "HTTP_ERROR"
         /\ result.error.statusCode = {response.status}
    /\ (FetchThrew \/ (StatusOk /\ ~BodyParsed)) =>
         /\ ~result.success
         /\ result.error.code = "FETCH_ERROR"
         /\ result.error.statusCode = {}
    /\ result.success => BodyParsed
    /\ (BodyParsed /\ op \in PassThroughOps) =>
         result = [success |-> TRUE, data |-> OptVal(response.body)]

C11_Witness ==
  /\ pc = "done" /\ op = "getProductById"
  /\ StatusNotOk /\ response.status = 404
  /\ ~result.success
  /\ result.error.code = "HTTP_ERROR"
  /\ result.error.statusCode = {404}

FindAllFailed == FetchThrew \/ StatusNotOk \/ (StatusOk /\ ~BodyParsed)

\* C12: when the repository's findAll fails, getProducts and searchProducts
\* (with a non-blank query) return a failure carrying that same error, never a
\* success, and no filter, sort or pagination is applied.
C12_FindAllFailurePropagates ==
  (pc = "done" /\ op \in {"getProducts", "searchProducts"}
     /\ findAllCalls > 0 /\ FindAllFailed)
    => /\ result = HttpGetResume(response)
       /\ ~result.success
       /\ result.error.code \in {"HTTP_ERROR", "FETCH_ERROR"}
       /\ products = <<>>

C12_Witness ==
  /\ pc = "done" /\ op = "getProducts"
  /\ args.filters # {} /\ args.sort # {} /\ args.pagination # {}
  /\ StatusNotOk
  /\ ~result.success /\ result.error.statusCode = {500}
  /\ Len(dataset) > 0

\* the operation in progress was called with arguments its guard accepts
ValidArguments ==
  /\ op = "getProductById" => args.id > 0
  /\ op = "findByCategory" => ~IsBlank(args.category)
  /\ op = "searchProducts" => ~IsBlank(args.query)

\* C13: no operation retries: an invocation with valid arguments has issued
\* exactly one HTTP GET while it is suspended and when it has returned,
\* whatever the outcome, and getProducts and searchProducts have called
\* findAll exactly once (the other operations never).
C13_NoRetries ==
  (pc \in {"fetching", "done"} /\ ValidArguments) =>
    /\ httpCalls = 1
    /\ findAllCalls = IF op \in {"getProducts", "searchProducts"} THEN 1 ELSE 0

C13_Witness ==
  /\ pc = "done" /\ op = "searchProducts"
  /\ ~IsBlank(args.query)
  /\ FetchThrew /\ ~result.success
  /\ httpCalls = 1 /\ findAllCalls = 1

\* C18: when no product passes the filter, getProducts returns, for every
\* page >= 1 and limit >= 1, a success with total 0, totalPages 0 and no data.
C18_NoMatchEmptyResult ==
  (pc = "done" /\ op = "getProducts" /\ StatusOk /\ BodyParsed
     /\ Matching = {}
     /\ EffectivePagination.page >= 1 /\ EffectivePagination.limit >= 1)
    => /\ result.success
       /\ Page.total = 0
       /\ Page.totalPages = 0
       /\ Page.data = <<>>
       /\ Page.page = EffectivePagination.page
       /\ Page.limit = EffectivePagination.limit

C18_Witness ==
  /\ QueryDone
  /\ Len(dataset) >= 2
  /\ args.filters # {}
  /\ OptVal(args.filters).search # {}
  /\ OptVal(args.filters).minPrice = {}
  /\ OptVal(args.filters).maxPrice = {}
  /\ Matching = {}
  /\ args.pagination # {} /\ EffectivePagination.page = 2
  /\ Page.totalPages = 0 /\ Page.data = <<>>

\* the filter of the call has both price bounds, the lower above the upper
InvertedPriceRange ==
  /\ args.filters # {}
  /\ OptVal(args.filters).minPrice # {}
  /\ OptVal(args.filters).maxPrice # {}
  /\ OptVal(OptVal(args.filters).minPrice) > OptVal(OptVal(args.filters).maxPrice)

\* C19: a filter whose minPrice is greater than its maxPrice is not an error:
\* getProducts returns a success with no data and total 0, for every dataset.
C19_InvertedRangeIsEmpty ==
  (pc = "done" /\ op = "getProducts" /\ StatusOk /\ BodyParsed
     /\ InvertedPriceRange)
    => /\ result.success
       /\ Page.data = <<>>
       /\ Page.total = 0

C19_Witness ==
  /\ QueryDone
  /\ InvertedPriceRange
  /\ OptVal(args.filters).category = {}
  /\ OptVal(args.filters).search = {}
  /\ Len(dataset) = 3
  /\ \E i \in 1..3 : dataset[i].price = 2
  /\ \E i \in 1..3 : dataset[i].price = 1
  /\ Page.data = <<>> /\ Page.total = 0

\* the products page has rendered ProductList
Rendered == pagePc = "rendered"

\* C14: the dataset is fetched once and refined in memory: once the products
\* page has loaded, whatever updateFilter, updateSort, setPage and
\* resetFilters interactions follow, the service, the repository and the HTTP
\* client have been called only by the page load (one findAll, two GETs),
\* no operation is in flight, and the visible page is made of products of the
\* initialProducts the page load delivered.
C14_FetchedOnce ==
  Rendered =>
    /\ httpCalls = 2
    /\ findAllCalls = 1
    /\ pc = "idle"
    /\ productsResult.success
    /\ initialProducts = productsResult.data.data
    /\ \A i \in 1..Len(filteredProducts) :
         \E j \in 1..Len(initialProducts) :
           filteredProducts[i] = initialProducts[j]

C14_Witness ==
  /\ Rendered
  /\ httpCalls = 2 /\ findAllCalls = 1
  /\ hookSort = [field |-> "rating", order |-> "desc"]
  /\ hookPagination.page = 2
  /\ Len(initialProducts) = HookLimit + 1
  /\ Len(filteredProducts) = 1

\* C20: the in-browser pipeline is equivalent to the service pipeline: in
\* every state of useProductFilters, filteredProducts is the data, and
\* totalPages the totalPages, of getProducts called over initialProducts with
\* the hook's filters, sort and pagination.
C20_HookEqualsService ==
  Rendered =>
    LET service == GetProductsResume(success(initialProducts), {hookFilters},
                                     {hookSort}, {hookPagination}).result
    IN /\ service.success
       /\ filteredProducts = service.data.data
       /\ totalPages = service.data.totalPages

C20_Witness ==
  /\ Rendered
  /\ hookFilters.category = {Electronics}
  /\ hookFilters.minPrice = {2}
  /\ hookSort = [field |-> "price", order |-> "desc"]
  /\ hookPagination.page = 2
  /\ Len(initialProducts) = HookLimit + 1
  /\ filteredProducts = <<>>
  /\ totalPages = 1

\* C15: the query pipeline never mutates its input: when getProducts or
\* searchProducts has returned, the array the repository resolved to still is
\* the parsed response body, element for element, and after every render of
\* the hook initialProducts still is the page getProducts delivered at load,
\* also when a sort was applied.
C15_InputNotMutated ==
  /\ (pc = "done" /\ op \in {"getProducts", "searchProducts"} /\ BodyParsed)
       => repoData = OptVal(response.body)
  /\ (pagePc # "start" /\ productsResult.success) => repoData = dataset
  /\ Rendered =>
       initialProducts = SubSeq(dataset, 1, Min(Len(dataset), DefaultLimit))

C15_Witness ==
  /\ Rendered
  /\ hookFilters = NoFilters
  /\ hookSort = [field |-> "price", order |-> "desc"]
  /\ Len(dataset) >= 2
  /\ initialProducts = dataset
  /\ filteredProducts # initialProducts
  /\ Len(filteredProducts) = Len(initialProducts)

\* what the call of caller c returns when it is the only call: the pipeline
\* of C1..C6 over the answer its own fetch got, with its own arguments
ResultAlone(c) ==
  LET own == calls[c]
      fetched == own.response
      ok == fetched.kind = "response" /\ fetched.status \in 200..299
              /\ fetched.body # {}
      filtered == IF own.args.filters = {} THEN dataset
                  ELSE applyFilters(dataset, OptVal(own.args.filters))
      sorted == IF own.args.sort = {} THEN filtered
                ELSE applySort(filtered, OptVal(own.args.sort))
      config == IF own.args.pagination = {}
                THEN [page |-> DefaultPage, limit |-> DefaultLimit]
                ELSE OptVal(own.args.pagination)
  IN IF ok THEN success(applyPagination(sorted, config))
     ELSE HttpGetResume(fetched)

\* C16: interleaved calls are safe: with several getProducts calls in flight
\* on the shared service, whatever the order of their await points, each call
\* that has returned holds the result it returns when it runs alone.
C16_InterleavedCallsIndependent ==
  \A c \in Callers : calls[c].pc = "done" => calls[c].result = ResultAlone(c)

C16_Witness ==
  /\ calls[1].pc = "done" /\ calls[1].result.success
  /\ calls[2].pc = "fetching"
  /\ calls[1].args.sort # {} /\ calls[1].args.filters = {}
  /\ calls[1].args.pagination # {}
  /\ calls[2].args.sort = {} /\ calls[2].args.filters # {}
  /\ calls[1].result.data.total = MaxProducts
  /\ Len(calls[1].result.data.data) = MaxLimit

\* the state useProductFilters starts in
HookInitial ==
  /\ hookFilters = NoFilters
  /\ hookSort = [field |-> "title", order |-> "asc"]
  /\ hookPagination = [page |-> 1, limit |-> 12]

\* C22: useProductFilters starts with no filters, sort title/asc, page 1 and
\* limit 12; from every state resetFilters leads to exactly that state, and
\* applied to that state it changes nothing (twice equals once).
C22_ResetRestoresInitial ==
  [][/\ (PageGetCategories /\ pagePc' = "rendered") => HookInitial'
     /\ resetFilters => (HookInitial' /\ initialProducts' = initialProducts)
     /\ (HookInitial /\ resetFilters) => UNCHANGED vars]_vars

C22_Witness ==
  /\ Rendered
  /\ hookFilters.category # {} /\ hookFilters.maxPrice # {}
  /\ hookSort = [field |-> "price", order |-> "desc"]
  /\ hookPagination.page = 2

\* the number of products of initialProducts that pass the hook's filters
MatchCount ==
  Cardinality({i \in 1..Len(initialProducts) :
                 /\ hookFilters.category # {} =>
                      initialProducts[i].category = OptVal(hookFilters.category)
                 /\ SatisfiesSearchAndPrice(initialProducts[i], hookFilters)})

\* C26: when setPage is only called with a page in 1..totalPages, in every
\* state of the hook the current page is 1 or at most totalPages, and the
\* visible page is not empty while a product passes the filters.
C26_PageWithinRange ==
  Rendered =>
    /\ hookPagination.page = 1 \/ hookPagination.page <= totalPages
    /\ MatchCount > 0 => filteredProducts # <<>>

C26_Witness ==
  /\ Rendered
  /\ hookPagination.page = 2 /\ totalPages = 2
  /\ hookSort.order = "desc"
  /\ Len(filteredProducts) = 1

\* C27: every updateFilter call, whatever the key and the value (also one
\* that removes a filter or sets the value the key already has), puts the
\* current page to 1 and leaves the sort and the page size unchanged.
C27_UpdateFilterResetsPage ==
  [][\A key \in HookFilterKeys : \A value \in HookValues(key) :
       updateFilter(key, value) =>
         /\ hookPagination'.page = 1
         /\ hookPagination'.limit = hookPagination.limit
         /\ hookSort' = hookSort]_vars

C27_Witness ==
  /\ Rendered
  /\ hookFilters.search = {<<"A">>}
  /\ hookSort = [field |-> "rating", order |-> "desc"]
  /\ hookPagination = [page |-> 1, limit |-> 12]
  /\ Len(initialProducts) > 12

\* C28: updateSort(field) sets the field, and the order to desc exactly when
\* the current sort has that field with order asc, to asc otherwise; it
\* leaves filters, page and page size unchanged; setPage leaves filters and
\* sort unchanged.
C28_UpdateSortToggles ==
  [][/\ \A field \in {"title", "price", "rating"} :
          updateSort(field) =>
            /\ hookSort'.field = field
            /\ hookSort'.order = "desc" <=>
                 (hookSort.field = field /\ hookSort.order = "asc")
            /\ hookSort'.order \in {"asc", "desc"}
            /\ hookFilters' = hookFilters
            /\ hookPagination' = hookPagination
     /\ \A page \in 1..MaxPage :
          setPage(page) =>
            /\ hookFilters' = hookFilters
            /\ hookSort' = hookSort
            /\ hookPagination' = [page |-> page, limit |-> hookPagination.limit]]_vars

C28_Witness ==
  /\ Rendered
  /\ hookSort = [field |-> "price", order |-> "desc"]
  /\ hookFilters.minPrice = {2}
  /\ hookPagination.page = 2

\* C29: updateFilter(key, value) with value undefined or '' removes the key
\* and leaves every other key unchanged, and with any other value sets only
\* that key; so no filter field ever holds an empty string, while a numeric
\* bound of 0 is kept and applied as a constraint.
C29_UpdateFilterSetsOrRemoves ==
  /\ [](Rendered =>
          /\ hookFilters.category # {<<>>}
          /\ hookFilters.search # {<<>>}
          /\ hookFilters.maxPrice = {0} =>
               \A i \in 1..Len(filteredProducts) : filteredProducts[i].price <= 0)
  /\ [][\A key \in HookFilterKeys : \A value \in HookValues(key) :
          updateFilter(key, value) =>
            /\ \A other \in HookFilterKeys \ {key} :
                 hookFilters'[other] = hookFilters[other]
            /\ hookFilters'[key] =
                 IF value = {} \/ (key \in {"category", "search"} /\ value = {<<>>})
                 THEN {} ELSE value]_vars

C29_Witness ==
  /\ Rendered
  /\ hookFilters.maxPrice = {0}
  /\ hookFilters.category = {Electronics}
  /\ Len(initialProducts) > 0
  /\ filteredProducts = <<>>
  /\ totalPages = 0

\* C25: getProducts does not validate the page spec: for a page number <= 0
\* with limit >= 1 it returns a success, not a validation error, that echoes
\* the given page and limit, with total the number of filtered products and
\* totalPages computed from it.
C25_PageNotValidated ==
  (pc = "done" /\ op = "getProducts" /\ BodyParsed
     /\ args.pagination # {}
     /\ OptVal(args.pagination).page <= 0
     /\ OptVal(args.pagination).limit >= 1)
    => /\ result.success
       /\ Page.page = OptVal(args.pagination).page
       /\ Page.limit = OptVal(args.pagination).limit
       /\ Page.total = Cardinality(Matching)
       /\ Page.totalPages = PagesNeeded(Page.total, Page.limit)

C25_Witness ==
  /\ QueryDone
  /\ args.pagination = {[page |-> 0, limit |-> 1]}
  /\ args.filters # {} /\ args.sort # {}
  /\ Page.page = 0
  /\ Page.total = 2 /\ Page.totalPages = 2
  /\ Len(dataset) = 3

\* C30: the two search paths agree: for a non-blank query q, searchProducts(q)
\* returns the same products in the same order as the unpaginated data of
\* getProducts({search: q}), that is exactly the products whose title or
\* description contains q, letter case ignored.
C30_AsStated ==
  (pc = "done" /\ op = "searchProducts" /\ ~IsBlank(args.query) /\ BodyParsed)
    => /\ result.success
       /\ result.data =
            applyFilters(dataset, [NoFilters EXCEPT !.search = {args.query}])
       /\ IsSelection(result.data, dataset,
                      {product \in Range(dataset) :
                         \/ ContainsIgnoringCase(product.title, args.query)
                         \/ ContainsIgnoringCase(product.description,
                                                 args.query)})

\* the metrics the sales service returned
Metrics == metricsResult.data

\* C24: generateMockSalesData is a function of the product id alone: the
\* returned metrics are those of the id asked for, with exactly twelve monthly
\* entries in the order Jan..Dec, totalRevenue the sum of the monthly
\* revenues, totalUnits the sum of the monthly units, and averageMonthlySales
\* equal to totalRevenue / 12.
C24_SalesMetricsConsistent ==
  salesPc = "done" =>
    LET m == Metrics.monthlySales
    IN /\ metricsResult.success
       /\ Metrics.productId = salesProductId
       /\ Len(m) = 12
       /\ <<m[1].month, m[2].month, m[3].month, m[4].month, m[5].month,
            m[6].month, m[7].month, m[8].month, m[9].month, m[10].month,
            m[11].month, m[12].month>>
            = <<"Jan", "Feb", "Mar", "Apr", "May", "Jun", "Jul", "Aug", "Sep",
                "Oct", "Nov", "Dec">>
       /\ Metrics.totalRevenue =
            m[1].revenue + m[2].revenue + m[3].revenue + m[4].revenue
              + m[5].revenue + m[6].revenue + m[7].revenue + m[8].revenue
              + m[9].revenue + m[10].revenue + m[11].revenue + m[12].revenue
       /\ Metrics.totalUnits =
            m[1].units + m[2].units + m[3].units + m[4].units + m[5].units
              + m[6].units + m[7].units + m[8].units + m[9].units
              + m[10].units + m[11].units + m[12].units
       /\ Metrics.averageMonthlySales.den # 0
       /\ Metrics.averageMonthlySales.num * 12 =
            Metrics.totalRevenue * Metrics.averageMonthlySales.den
       /\ \A productId \in (-MaxSalesId)..MaxSalesId :
            productId = salesProductId =>
              Metrics.monthlySales[1].units
                = MathRoundMillionths((50 + JsRem(productId * 7, 150)) * 800000)

C24_Witness ==
  /\ salesPc = "done"
  /\ salesProductId = 1
  /\ Metrics.monthlySales[1] =
       [month |-> "Jan", sales |-> 598, revenue |-> 598, units |-> 46]
  /\ Metrics.monthlySales[4].units = 115
  /\ Metrics.totalRevenue > 0

\* C23 as stated: once no setThemeCookie call is pending, the theme cookie
\* yields the theme the UI shows, so a refresh renders the theme chosen last.
C23_AsStated == themeCalls = <<>> => getThemeCookie(themeCookie) = theme

\* C21: no failure result is swallowed by a page.  The listing page renders
\* ProductList only from two successful results, from the products of the
\* products result, and ends in the failure view when either fetch failed;
\* the detail page renders the product body only from a successful product
\* result and ends in the not-found view when the product fetch failed.
C21_FailuresSurfaced ==
  /\ pagePc = "rendered" =>
       /\ productsResult.success
       /\ categoriesResult.success
       /\ initialProducts = productsResult.data.data
  /\ (pagePc \in {"rendered", "error"}
        /\ (~productsResult.success \/ ~categoriesResult.success)) =>
       pagePc = "error"
  /\ detailPc = "rendered" => productResult.success /\ salesResult.success
  /\ (detailPc \in {"notFound", "error", "rendered"}
        /\ ~productResult.success) =>
       detailPc = "notFound"

C21_Witness ==
  /\ pagePc = "error"
  /\ productsResult.success
  /\ ~categoriesResult.success
  /\ detailPc = "notFound"
  /\ salesProductId = 1
  /\ salesResult.success
  /\ ~productResult.success
  /\ productResult.error.code = "HTTP_ERROR"
  /\ productResult.error.statusCode = {500}

====
